---- MODULE Spec2Model ----
(***************************************************************************)
(* Model of iudex-go's setupOTelSDK (src/main.go): configuration           *)
(* defaulting from the environment, header construction, the fixed         *)
(* sequence of SDK constructors with rollback on failure, and the          *)
(* returned shutdown closure.                                              *)
(*                                                                         *)
(* A Go *string is a sequence: <<>> is nil, <<s>> points to s.  An error   *)
(* is a sequence of messages: <<>> is nil, errors.Join concatenates.       *)
(***************************************************************************)
EXTENDS Integers, Sequences, FiniteSets, TLC

\* Bound on the number of calls of the shutdown closure in one run, the call
\* made by handleErr included.
MaxShutdownCalls == 2

Nil == <<>>

Ptr(s) == <<s>>

Deref(p) == p[1]

\* stringPtr (main.go:81-83)
stringPtr(s) == Ptr(s)

EnvKeys == {"BASE_URL", "API_KEY", "PUBLIC_API_KEY", "SERVICE_NAME",
            "INSTANCE_ID", "ENVIRONMENT", "GIT_COMMIT"}

\* Values an environment variable may hold when it is set.
EnvValues ==
    [BASE_URL       |-> {"", "env.iudex.ai"},
     API_KEY        |-> {"env-key"},
     PUBLIC_API_KEY |-> {"env-public-key"},
     SERVICE_NAME   |-> {"env-service"},
     INSTANCE_ID    |-> {"env-instance"},
     ENVIRONMENT    |-> {"env-environment"},
     GIT_COMMIT     |-> {"env-commit"}]

\* The process environments: every variable is unset (<<>>) or set (<<v>>).
Environments ==
    {e \in [EnvKeys -> {Nil} \cup {Ptr(v) : v \in UNION {EnvValues[k] : k \in EnvKeys}}] :
        \A k \in EnvKeys : e[k] = Nil \/ Deref(e[k]) \in EnvValues[k]}

\* The InstrumentationConfig values a caller passes (main.go:27-40).
InstrumentationConfig ==
    [BaseURL      : {Nil, Ptr("cfg.iudex.ai")},
     APIKey       : {Nil, Ptr(""), Ptr("cfg-key")},
     PublicAPIKey : {Nil, Ptr(""), Ptr("cfg-public-key")},
     ServiceName  : {Nil, Ptr("cfg-service")},
     InstanceID   : {Nil, Ptr("cfg-instance")},
     Env          : {Nil, Ptr("cfg-environment")},
     GitCommit    : {Nil, Ptr("cfg-commit")},
     GitHubURL    : {Nil}]

Providers == {"tracerProvider", "loggerProvider"}

\* What a provider's Shutdown may return: nil or an error of its own.
ShutdownErr ==
    [tracerProvider |-> <<"tracerProvider.Shutdown failed">>,
     loggerProvider |-> <<"loggerProvider.Shutdown failed">>]

ShutdownRets ==
    {r \in [Providers -> {Nil} \cup {ShutdownErr[p] : p \in Providers}] :
        \A p \in Providers : r[p] = Nil \/ r[p] = ShutdownErr[p]}

\* What an SDK constructor (resource.New, otlptracehttp.New,
\* otlploghttp.New) may return as its error.
SdkErrs == {Nil, <<"sdk error">>}

\* The goroutines that call the returned shutdown function concurrently.
Goroutines == {"g1", "g2"}

\* A goroutine that has not entered shutdown.
IdleG == [pc |-> "idle", fns |-> <<>>, called |-> <<>>, err |-> <<>>]

VARIABLES
    env,            \* the process environment read by os.LookupEnv
    cfgIn,          \* the config argument as passed by the caller
    config,         \* the local copy of config, overwritten by defaulting
    pc,             \* position inside setupOTelSDK
    res,            \* the resource (Nil until built)
    headers,        \* the header map pointer (Nil until built)
    tracerProvider, \* the tracer provider (Nil until built)
    loggerProvider, \* the logger provider (Nil until built)
    shutdownFuncs,  \* the closure's list of registered cleanups
    err,            \* setupOTelSDK's named result err
    globals,        \* the SDK's process-global registrations
    trace,          \* SDK calls made so far, in order
    invoked,        \* per provider, how often its Shutdown was invoked
    providerRet,    \* per provider, what its Shutdown returned
    nCalls,         \* how often the shutdown closure has been called
    lastCall,       \* cleanups invoked and error returned by the last call
    gor             \* per goroutine running shutdown: position, rest of the
                    \* ranged-over list, cleanups called, local err

vars == <<env, cfgIn, config, pc, res, headers, tracerProvider, loggerProvider,
          shutdownFuncs, err, globals, trace, invoked, providerRet, nCalls,
          lastCall, gor>>

setupVars == <<res, headers, tracerProvider, loggerProvider, globals>>

shutdownVars == <<shutdownFuncs, invoked, providerRet, nCalls, lastCall>>

----------------------------------------------------------------------------
(* Pure functions *)

\* errors.Join: nil operands are dropped, nil when all are nil.
Join(a, b) == a \o b

\* os.LookupEnv through getEnv (main.go:73-78)
getEnv(key, defaultValue) ==
    IF env[key] # Nil THEN Ptr(Deref(env[key])) ELSE defaultValue

\* getDefaultConfig (main.go:43-70)
getDefaultConfig ==
    LET defaultBaseURL      == getEnv("BASE_URL", Nil)
        defaultAPIKey       == getEnv("API_KEY", Nil)
        defaultPublicAPIKey == getEnv("PUBLIC_API_KEY", Nil)
        defaultServiceName  == getEnv("SERVICE_NAME", Nil)
        defaultInstanceID   == getEnv("INSTANCE_ID", Nil)
        defaultEnv          == getEnv("ENVIRONMENT", Nil)
        defaultGitCommit    == getEnv("GIT_COMMIT", Nil)
    IN  [BaseURL      |-> IF defaultBaseURL = Nil
                          THEN stringPtr("api.iudex.ai") ELSE defaultBaseURL,
         APIKey       |-> defaultAPIKey,
         PublicAPIKey |-> defaultPublicAPIKey,
         ServiceName  |-> IF defaultServiceName = Nil
                          THEN stringPtr("default-service") ELSE defaultServiceName,
         InstanceID   |-> defaultInstanceID,
         Env          |-> IF defaultEnv = Nil
                          THEN stringPtr("development") ELSE defaultEnv,
         GitCommit    |-> defaultGitCommit,
         GitHubURL    |-> Nil]

\* "Set default values if not provided" (main.go:108-123)
applyDefaults_envWins(c, defaults) ==
    [c EXCEPT !.ServiceName = defaults.ServiceName,
              !.InstanceID  = IF c.InstanceID = Nil THEN defaults.InstanceID ELSE @,
              !.Env         = IF c.Env = Nil THEN defaults.Env ELSE @,
              !.GitCommit   = IF c.GitCommit = Nil THEN defaults.GitCommit ELSE @,
              !.BaseURL     = IF c.BaseURL = Nil THEN defaults.BaseURL ELSE @]

applyDefaults(c, defaults) ==
    [c EXCEPT !.ServiceName = IF c.ServiceName = Nil THEN defaults.ServiceName ELSE @,
              !.InstanceID  = IF c.InstanceID = Nil THEN defaults.InstanceID ELSE @,
              !.Env         = IF c.Env = Nil THEN defaults.Env ELSE @,
              !.GitCommit   = IF c.GitCommit = Nil THEN defaults.GitCommit ELSE @,
              !.BaseURL     = IF c.BaseURL = Nil THEN defaults.BaseURL ELSE @]

\* newResource (main.go:171-196); sdkErr is what resource.New returns.
newResource(c, sdkErr) ==
    LET attr(k, p) == IF p # Nil THEN <<<<k, Deref(p)>>>> ELSE <<>>
        attributes == attr("service.name", c.ServiceName)
                      \o attr("service.instance.id", c.InstanceID)
                      \o attr("env", c.Env)
                      \o attr("git.commit", c.GitCommit)
                      \o attr("github.url", c.GitHubURL)
    IN  IF sdkErr # Nil
        THEN [res |-> Nil, err |-> <<"failed to create resource">> \o sdkErr]
        ELSE [res |-> Ptr(attributes), err |-> Nil]

\* A Go map[string]string with the given entries.
MapOf(pairs) == [k \in {p[1] : p \in pairs} |-> (CHOOSE p \in pairs : p[1] = k)[2]]

\* newHeaders (main.go:198-212)
newHeaders_noKeyCheck(c) ==
    IF c.PublicAPIKey # Nil
    THEN [headers |-> Ptr(MapOf({<<"x-write-only-api-key", Deref(c.PublicAPIKey)>>})), err |-> Nil]
    ELSE IF c.APIKey # Nil
    THEN [headers |-> Ptr(MapOf({<<"x-api-key", Deref(c.APIKey)>>})), err |-> Nil]
    ELSE [headers |-> Ptr(MapOf({})), err |-> Nil]

newHeaders_privateFirst(c) ==
    IF c.APIKey = Nil /\ c.PublicAPIKey = Nil
    THEN [headers |-> Nil,
          err |-> <<"PUBLIC_WRITE_ONLY_IUDEX_API_KEY environment variable is missing or empty">>]
    ELSE IF c.APIKey # Nil
    THEN [headers |-> Ptr(MapOf({<<"x-api-key", Deref(c.APIKey)>>})), err |-> Nil]
    ELSE [headers |-> Ptr(MapOf({<<"x-write-only-api-key", Deref(c.PublicAPIKey)>>})), err |-> Nil]

newHeaders_bothKeys(c) ==
    IF c.APIKey = Nil /\ c.PublicAPIKey = Nil
    THEN [headers |-> Nil,
          err |-> <<"PUBLIC_WRITE_ONLY_IUDEX_API_KEY environment variable is missing or empty">>]
    ELSE [headers |-> Ptr(MapOf(
                        (IF c.PublicAPIKey # Nil
                         THEN {<<"x-write-only-api-key", Deref(c.PublicAPIKey)>>} ELSE {})
                        \cup
                        (IF c.APIKey # Nil
                         THEN {<<"x-api-key", Deref(c.APIKey)>>} ELSE {}))),
          err |-> Nil]

newHeaders(c) ==
    IF c.APIKey = Nil /\ c.PublicAPIKey = Nil
    THEN [headers |-> Nil,
          err |-> <<"PUBLIC_WRITE_ONLY_IUDEX_API_KEY environment variable is missing or empty">>]
    ELSE IF c.PublicAPIKey # Nil
    THEN [headers |-> Ptr(MapOf({<<"x-write-only-api-key", Deref(c.PublicAPIKey)>>})), err |-> Nil]
    ELSE IF c.APIKey # Nil
    THEN [headers |-> Ptr(MapOf({<<"x-api-key", Deref(c.APIKey)>>})), err |-> Nil]
    ELSE [headers |-> Ptr(MapOf({})), err |-> Nil]

\* newTraceProvider (main.go:214-234); sdkErr is what otlptracehttp.New returns.
newTraceProvider(c, r, h, sdkErr) ==
    LET baseURL == IF c.BaseURL # Nil THEN Deref(c.BaseURL) ELSE "api.iudex.ai"
    IN  IF sdkErr # Nil
        THEN [provider |-> Nil, err |-> sdkErr]
        ELSE [provider |-> Ptr([endpoint |-> baseURL, headers |-> Deref(h),
                                resource |-> Deref(r)]),
              err |-> Nil]

\* newLoggerProvider (main.go:236-256); sdkErr is what otlploghttp.New returns.
newLoggerProvider(c, r, h, sdkErr) ==
    LET baseURL == IF c.BaseURL # Nil THEN Deref(c.BaseURL) ELSE "api.iudex.ai"
    IN  IF sdkErr # Nil
        THEN [provider |-> Nil, err |-> sdkErr]
        ELSE [provider |-> Ptr([endpoint |-> baseURL, headers |-> Deref(h),
                                resource |-> Deref(r)]),
              err |-> Nil]

----------------------------------------------------------------------------
(* The shutdown closure and handleErr *)

\* The loop of shutdown (main.go:94-97): every registered cleanup is called
\* in list order and its result joined into err.
RECURSIVE runCleanups_stopAtError(_, _, _)
runCleanups_stopAtError(fns, ret, acc) ==
    IF fns = <<>> \/ acc.err # Nil THEN acc
    ELSE runCleanups_stopAtError(Tail(fns), ret,
            [err    |-> Join(acc.err, ret[Head(fns)]),
             called |-> Append(acc.called, Head(fns))])

RECURSIVE runCleanups(_, _, _)
runCleanups(fns, ret, acc) ==
    IF fns = <<>> THEN acc
    ELSE runCleanups(Tail(fns), ret,
            [err    |-> Join(acc.err, ret[Head(fns)]),
             called |-> Append(acc.called, Head(fns))])

Times(p, s) == Cardinality({i \in 1..Len(s) : s[i] = p})

ShutdownEvents(s) == [i \in 1..Len(s) |-> s[i] \o ".Shutdown"]

\* shutdown (main.go:93-100).  ret is what each provider's Shutdown returns
\* if invoked; pre are the SDK calls the caller made just before.
shutdown_keepList(ret, pre) ==
    LET run == runCleanups(shutdownFuncs, ret, [err |-> Nil, called |-> <<>>])
    IN  /\ invoked' = [p \in Providers |-> invoked[p] + Times(p, run.called)]
        /\ providerRet' = [p \in Providers |->
                              IF Times(p, run.called) > 0 THEN ret[p] ELSE providerRet[p]]
        /\ trace' = trace \o pre \o ShutdownEvents(run.called)
        /\ lastCall' = run
        /\ nCalls' = nCalls + 1
        /\ shutdownFuncs' = shutdownFuncs

shutdown(ret, pre) ==
    LET run == runCleanups(shutdownFuncs, ret, [err |-> Nil, called |-> <<>>])
    IN  /\ invoked' = [p \in Providers |-> invoked[p] + Times(p, run.called)]
        /\ providerRet' = [p \in Providers |->
                              IF Times(p, run.called) > 0 THEN ret[p] ELSE providerRet[p]]
        /\ trace' = trace \o pre \o ShutdownEvents(run.called)
        /\ lastCall' = run
        /\ nCalls' = nCalls + 1
        /\ shutdownFuncs' = Nil

\* handleErr (main.go:103-105)
handleErr_noShutdown(inErr, ret, pre) ==
    /\ trace' = trace \o pre
    /\ UNCHANGED shutdownVars
    /\ err' = inErr

handleErr(inErr, ret, pre) ==
    /\ shutdown(ret, pre)
    /\ err' = Join(inErr, lastCall'.err)

----------------------------------------------------------------------------
(* setupOTelSDK, step by step *)

Init ==
    /\ env \in Environments
    /\ cfgIn \in InstrumentationConfig
    /\ config = cfgIn
    /\ pc = "defaults"
    /\ res = Nil
    /\ headers = Nil
    /\ tracerProvider = Nil
    /\ loggerProvider = Nil
    /\ shutdownFuncs = Nil
    /\ err = Nil
    /\ globals = {}
    /\ trace = <<>>
    /\ invoked = [p \in Providers |-> 0]
    /\ providerRet = [p \in Providers |-> Nil]
    /\ nCalls = 0
    /\ lastCall = [err |-> Nil, called |-> <<>>]
    /\ gor = [g \in Goroutines |-> IdleG]

\* main.go:107-123
SetDefaults ==
    /\ pc = "defaults"
    /\ config' = applyDefaults(config, getDefaultConfig)
    /\ pc' = "propagator"
    /\ UNCHANGED <<env, cfgIn, gor, setupVars, shutdownVars, err, trace>>

\* main.go:125-127
SetupPropagator ==
    /\ pc = "propagator"
    /\ globals' = globals \cup {"TextMapPropagator"}
    /\ trace' = Append(trace, "SetTextMapPropagator")
    /\ pc' = "resource"
    /\ UNCHANGED <<env, cfgIn, gor, config, res, headers, tracerProvider, loggerProvider,
                   shutdownVars, err>>

\* main.go:129-134
SetupResource_noReturn ==
    /\ pc = "resource"
    /\ \E sdkErr \in SdkErrs, ret \in ShutdownRets :
         LET r == newResource(config, sdkErr)
         IN  /\ res' = r.res
             /\ IF r.err # Nil
                THEN /\ handleErr(r.err, ret, <<"newResource">>)
                     /\ pc' = "headers"
                ELSE /\ trace' = Append(trace, "newResource")
                     /\ err' = r.err
                     /\ pc' = "headers"
                     /\ UNCHANGED shutdownVars
    /\ UNCHANGED <<env, cfgIn, gor, config, headers, tracerProvider, loggerProvider, globals>>

SetupResource ==
    /\ pc = "resource"
    /\ \E sdkErr \in SdkErrs, ret \in ShutdownRets :
         LET r == newResource(config, sdkErr)
         IN  /\ res' = r.res
             /\ IF r.err # Nil
                THEN /\ handleErr(r.err, ret, <<"newResource">>)
                     /\ pc' = "returned"
                ELSE /\ trace' = Append(trace, "newResource")
                     /\ err' = r.err
                     /\ pc' = "headers"
                     /\ UNCHANGED shutdownVars
    /\ UNCHANGED <<env, cfgIn, gor, config, headers, tracerProvider, loggerProvider, globals>>

\* main.go:136-141
SetupHeaders ==
    /\ pc = "headers"
    /\ \E ret \in ShutdownRets :
         LET h == newHeaders(config)
         IN  /\ headers' = h.headers
             /\ IF h.err # Nil
                THEN /\ handleErr(h.err, ret, <<"newHeaders">>)
                     /\ pc' = "returned"
                ELSE /\ trace' = Append(trace, "newHeaders")
                     /\ err' = h.err
                     /\ pc' = "traceProvider"
                     /\ UNCHANGED shutdownVars
    /\ UNCHANGED <<env, cfgIn, gor, config, res, tracerProvider, loggerProvider, globals>>

\* main.go:143-150
SetupTraceProvider ==
    /\ pc = "traceProvider"
    /\ \E sdkErr \in SdkErrs, ret \in ShutdownRets :
         LET t == newTraceProvider(config, res, headers, sdkErr)
         IN  /\ tracerProvider' = t.provider
             /\ IF t.err # Nil
                THEN /\ handleErr(t.err, ret, <<"newTraceProvider">>)
                     /\ pc' = "returned"
                     /\ UNCHANGED globals
                ELSE /\ err' = t.err
                     /\ shutdownFuncs' = Append(shutdownFuncs, "tracerProvider")
                     /\ globals' = globals \cup {"TracerProvider"}
                     /\ trace' = trace \o <<"newTraceProvider", "SetTracerProvider">>
                     /\ pc' = "loggerProvider"
                     /\ UNCHANGED <<invoked, providerRet, nCalls, lastCall>>
    /\ UNCHANGED <<env, cfgIn, gor, config, res, headers, loggerProvider>>

\* main.go:152-162
SetupLoggerProvider_registerFirst ==
    /\ pc = "loggerProvider"
    /\ \E sdkErr \in SdkErrs, ret \in ShutdownRets :
         LET l == newLoggerProvider(config, res, headers, sdkErr)
         IN  /\ loggerProvider' = l.provider
             /\ globals' = globals \cup {"LoggerProvider"}
             /\ IF l.err # Nil
                THEN /\ handleErr(l.err, ret, <<"newLoggerProvider", "SetLoggerProvider">>)
                     /\ pc' = "returned"
                ELSE /\ err' = l.err
                     /\ shutdownFuncs' = Append(shutdownFuncs, "loggerProvider")
                     /\ trace' = trace \o <<"newLoggerProvider", "SetLoggerProvider">>
                     /\ pc' = "returned"
                     /\ UNCHANGED <<invoked, providerRet, nCalls, lastCall>>
    /\ UNCHANGED <<env, cfgIn, gor, config, res, headers, tracerProvider>>

SetupLoggerProvider ==
    /\ pc = "loggerProvider"
    /\ \E sdkErr \in SdkErrs, ret \in ShutdownRets :
         LET l == newLoggerProvider(config, res, headers, sdkErr)
         IN  /\ loggerProvider' = l.provider
             /\ IF l.err # Nil
                THEN /\ handleErr(l.err, ret, <<"newLoggerProvider">>)
                     /\ pc' = "returned"
                     /\ UNCHANGED globals
                ELSE /\ err' = l.err
                     /\ shutdownFuncs' = Append(shutdownFuncs, "loggerProvider")
                     /\ globals' = globals \cup {"LoggerProvider"}
                     /\ trace' = trace \o <<"newLoggerProvider", "SetLoggerProvider">>
                     /\ pc' = "returned"
                     /\ UNCHANGED <<invoked, providerRet, nCalls, lastCall>>
    /\ UNCHANGED <<env, cfgIn, gor, config, res, headers, tracerProvider>>

\* The caller invokes the shutdown function setupOTelSDK returned
\* (main.go:93-100), one call after another.
CallShutdown ==
    /\ pc = "returned"
    /\ nCalls < MaxShutdownCalls
    /\ \E ret \in ShutdownRets : shutdown(ret, <<>>)
    /\ UNCHANGED <<env, cfgIn, gor, config, pc, setupVars, err>>

Next ==
    \/ SetDefaults
    \/ SetupPropagator
    \/ SetupResource
    \/ SetupHeaders
    \/ SetupTraceProvider
    \/ SetupLoggerProvider
    \/ CallShutdown

Spec == Init /\ [][Next]_vars

----------------------------------------------------------------------------
(* The shutdown closure called from two goroutines.  The closure takes no   *)
(* lock, so its statements interleave: the range expression is evaluated    *)
(* once when the loop starts (main.go:95), each cleanup call is a step      *)
(* (main.go:96), and the list is cleared after the loop (main.go:98).  A    *)
(* read of shutdownFuncs that races with the other goroutine's write yields *)
(* the list before or after that write; both orders are interleavings here. *)

\* main.go:94-95: var err error; evaluate the range expression.
GoRange(g) ==
    /\ pc = "returned"
    /\ gor[g].pc = "idle"
    /\ gor' = [gor EXCEPT ![g] = [pc |-> "loop", fns |-> shutdownFuncs,
                                  called |-> <<>>, err |-> Nil]]
    /\ UNCHANGED <<env, cfgIn, config, pc, setupVars, err, trace, shutdownVars>>

\* main.go:96: one iteration, err = errors.Join(err, fn(ctx)).
GoCleanup(g) ==
    /\ gor[g].pc = "loop"
    /\ gor[g].fns # <<>>
    /\ LET fn == Head(gor[g].fns)
       IN  \E r \in {Nil, ShutdownErr[fn]} :
             /\ invoked' = [invoked EXCEPT ![fn] = @ + 1]
             /\ providerRet' = [providerRet EXCEPT ![fn] = r]
             /\ trace' = Append(trace, fn \o ".Shutdown")
             /\ gor' = [gor EXCEPT ![g].fns = Tail(@),
                                   ![g].called = Append(@, fn),
                                   ![g].err = Join(@, r)]
    /\ UNCHANGED <<env, cfgIn, config, pc, setupVars, err, shutdownFuncs, nCalls, lastCall>>

\* main.go:98-99: shutdownFuncs = nil; return err.
GoReturn(g) ==
    /\ gor[g].pc = "loop"
    /\ gor[g].fns = <<>>
    /\ shutdownFuncs' = Nil
    /\ nCalls' = nCalls + 1
    /\ lastCall' = [err |-> gor[g].err, called |-> gor[g].called]
    /\ gor' = [gor EXCEPT ![g].pc = "done"]
    /\ UNCHANGED <<env, cfgIn, config, pc, setupVars, err, trace, invoked, providerRet>>

\* The callers of the concurrent runs pass a config with the keys only and
\* run in an environment with none of the variables set.
InitConc ==
    /\ Init
    /\ \A k \in EnvKeys : env[k] = Nil
    /\ \A f \in {"BaseURL", "ServiceName", "InstanceID", "Env", "GitCommit"} : cfgIn[f] = Nil

NextConc ==
    \/ SetDefaults
    \/ SetupPropagator
    \/ SetupResource
    \/ SetupHeaders
    \/ SetupTraceProvider
    \/ SetupLoggerProvider
    \/ \E g \in Goroutines : GoRange(g)
    \/ \E g \in Goroutines : GoCleanup(g)
    \/ \E g \in Goroutines : GoReturn(g)

SpecConc == InitConc /\ [][NextConc]_vars

----------------------------------------------------------------------------
(* Vocabulary of the properties *)

Called(e) == \E i \in 1..Len(trace) : trace[i] = e

KeyAbsent == config.APIKey = Nil /\ config.PublicAPIKey = Nil

MissingKeyErr ==
    <<"PUBLIC_WRITE_ONLY_IUDEX_API_KEY environment variable is missing or empty">>

\* Environment variable and hard-coded default of each defaulted field.
FieldEnvKey ==
    [BaseURL |-> "BASE_URL", ServiceName |-> "SERVICE_NAME", Env |-> "ENVIRONMENT",
     InstanceID |-> "INSTANCE_ID", GitCommit |-> "GIT_COMMIT"]

HardDefault ==
    [BaseURL |-> Ptr("api.iudex.ai"), ServiceName |-> Ptr("default-service"),
     Env |-> Ptr("development"), InstanceID |-> Nil, GitCommit |-> Nil]

FieldAttribute ==
    [ServiceName |-> "service.name", Env |-> "env",
     InstanceID |-> "service.instance.id", GitCommit |-> "git.commit"]

FirstPresent(f) ==
    IF cfgIn[f] # Nil THEN cfgIn[f]
    ELSE IF env[FieldEnvKey[f]] # Nil THEN env[FieldEnvKey[f]]
    ELSE HardDefault[f]

\* The value a resource carries for an attribute, Nil when it has none.
AttrOf(r, k) ==
    IF \E i \in 1..Len(r) : r[i][1] = k
    THEN Ptr(r[CHOOSE i \in 1..Len(r) : r[i][1] = k][2])
    ELSE Nil

Built == {p \in {tracerProvider, loggerProvider} : p # Nil}

\* C1: once defaulting is done, a config with neither APIKey nor
\* PublicAPIKey makes setup return a non-nil error without ever constructing
\* a trace or log exporter/provider; with at least one key present
\* newHeaders does not fail.
C1_KeyPresence ==
    /\ (pc # "defaults" /\ KeyAbsent) =>
          /\ tracerProvider = Nil /\ loggerProvider = Nil
          /\ ~Called("newTraceProvider") /\ ~Called("newLoggerProvider")
          /\ pc = "returned" => err # Nil
    /\ (Called("newHeaders") /\ ~KeyAbsent) => headers # Nil

C1_Witness ==
    /\ pc = "returned" /\ KeyAbsent /\ Called("newHeaders")
    /\ err = MissingKeyErr /\ env["API_KEY"] # Nil

\* C2: when the passed config leaves APIKey (resp. PublicAPIKey) absent and
\* API_KEY (resp. PUBLIC_API_KEY) is set, newHeaders does not fail and the
\* authentication header carries the environment value.
C2_EnvKeyFallback ==
    Called("newHeaders") =>
      /\ (cfgIn.PublicAPIKey = Nil /\ env["PUBLIC_API_KEY"] # Nil) =>
            /\ headers # Nil
            /\ "x-write-only-api-key" \in DOMAIN Deref(headers)
            /\ Deref(headers)["x-write-only-api-key"] = Deref(env["PUBLIC_API_KEY"])
      /\ (cfgIn.APIKey = Nil /\ env["API_KEY"] # Nil) =>
            /\ headers # Nil
            /\ (cfgIn.PublicAPIKey = Nil /\ env["PUBLIC_API_KEY"] = Nil) =>
                  /\ "x-api-key" \in DOMAIN Deref(headers)
                  /\ Deref(headers)["x-api-key"] = Deref(env["API_KEY"])

\* C3: for BaseURL, ServiceName, Env, InstanceID and GitCommit the value
\* setup uses is the passed config value if present, else the environment
\* variable if set, else the hard-coded default (absent for InstanceID and
\* GitCommit): in the defaulted config, in the resource attributes and in the
\* exporters' endpoint.
C3_Precedence ==
    pc # "defaults" =>
      /\ \A f \in DOMAIN FieldEnvKey : config[f] = FirstPresent(f)
      /\ res # Nil =>
            \A f \in DOMAIN FieldAttribute :
                AttrOf(Deref(res), FieldAttribute[f]) = FirstPresent(f)
      /\ \A p \in Built : Deref(p).endpoint = Deref(FirstPresent("BaseURL"))

C3_Witness ==
    /\ pc = "returned" /\ err = Nil
    /\ cfgIn.ServiceName # Nil /\ env["SERVICE_NAME"] # Nil
    /\ cfgIn.Env = Nil /\ env["ENVIRONMENT"] # Nil
    /\ cfgIn.BaseURL = Nil /\ env["BASE_URL"] = Nil
    /\ cfgIn.InstanceID = Nil /\ env["INSTANCE_ID"] = Nil
    /\ Deref(tracerProvider).endpoint = "api.iudex.ai"

\* C4: with at least one key present, the map newHeaders returns has the
\* PublicAPIKey value under x-write-only-api-key whenever PublicAPIKey is
\* present, the APIKey value under x-api-key only when PublicAPIKey is absent,
\* and never both names.
C4_HeaderName ==
    (Called("newHeaders") /\ ~KeyAbsent) =>
      /\ headers # Nil
      /\ LET h == Deref(headers)
         IN  /\ config.PublicAPIKey # Nil =>
                   /\ "x-write-only-api-key" \in DOMAIN h
                   /\ h["x-write-only-api-key"] = Deref(config.PublicAPIKey)
                   /\ "x-api-key" \notin DOMAIN h
             /\ config.PublicAPIKey = Nil =>
                   /\ "x-api-key" \in DOMAIN h
                   /\ h["x-api-key"] = Deref(config.APIKey)
                   /\ "x-write-only-api-key" \notin DOMAIN h

C4_Witness ==
    /\ Called("newHeaders")
    /\ config.PublicAPIKey = Ptr("cfg-public-key") /\ config.APIKey = Ptr("cfg-key")
    /\ headers # Nil /\ DOMAIN Deref(headers) = {"x-write-only-api-key"}

\* The error of the constructor that failed, read off which result is nil.
CtorErr ==
    IF res = Nil THEN <<"failed to create resource", "sdk error">>
    ELSE IF headers = Nil THEN MissingKeyErr
    ELSE <<"sdk error">>

\* C5: when setup returns an error, every provider built and registered
\* before the failing constructor has had Shutdown invoked exactly once, and
\* the error is the constructor's error joined with what those Shutdowns
\* returned.
C5_Rollback ==
    (pc = "returned" /\ err # Nil) =>
      /\ nCalls >= 1
      /\ shutdownFuncs = Nil
      /\ tracerProvider # Nil => invoked["tracerProvider"] = 1
      /\ loggerProvider # Nil => invoked["loggerProvider"] = 1
      /\ err = Join(CtorErr,
                    Join(IF tracerProvider # Nil THEN providerRet["tracerProvider"] ELSE Nil,
                         IF loggerProvider # Nil THEN providerRet["loggerProvider"] ELSE Nil))

C5_Witness ==
    /\ pc = "returned" /\ nCalls = 1
    /\ tracerProvider # Nil /\ loggerProvider = Nil
    /\ invoked["tracerProvider"] = 1
    /\ err = <<"sdk error", "tracerProvider.Shutdown failed">>

\* C6: over sequential calls of the shutdown closure, handleErr's call
\* included, no cleanup is invoked more than once; every call after the first
\* invokes none and returns nil; the list is empty after any call.
C6_CalledOnce ==
    /\ \A p \in Providers : invoked[p] <= 1
    /\ nCalls >= 1 => shutdownFuncs = Nil
    /\ nCalls >= 2 => (lastCall.called = <<>> /\ lastCall.err = Nil)

C6_Witness ==
    /\ nCalls = 2 /\ err = Nil
    /\ \A p \in Providers : invoked[p] = 1 /\ providerRet[p] # Nil

\* C7 as stated: the header map built by setup and handed to the exporters
\* has exactly two entries.
C7_TwoEntries ==
    /\ headers # Nil => Cardinality(DOMAIN Deref(headers)) = 2
    /\ \A p \in Built : Cardinality(DOMAIN Deref(p).headers) = 2

\* C7 amended: the header map built by setup and handed to the trace and log
\* exporters has exactly one entry.
C7_OneEntry ==
    /\ headers # Nil => Cardinality(DOMAIN Deref(headers)) = 1
    /\ \A p \in Built : Deref(p).headers = Deref(headers)

C7_Witness ==
    /\ tracerProvider # Nil /\ loggerProvider # Nil
    /\ config.APIKey = Ptr("cfg-key") /\ config.PublicAPIKey = Ptr("cfg-public-key")
    /\ Cardinality(DOMAIN Deref(loggerProvider).headers) = 1

SetupOrder ==
    <<"SetTextMapPropagator", "newResource", "newHeaders", "newTraceProvider",
      "SetTracerProvider", "newLoggerProvider", "SetLoggerProvider">>

IsSetupCall(e) == \E i \in 1..Len(SetupOrder) : SetupOrder[i] = e

CtorFailed(e) ==
    \/ e = "newResource" /\ res = Nil
    \/ e = "newHeaders" /\ headers = Nil
    \/ e = "newTraceProvider" /\ tracerProvider = Nil
    \/ e = "newLoggerProvider" /\ loggerProvider = Nil

\* C8: the SDK calls of setup are a prefix of propagator registration,
\* resource, headers, trace provider (then its registration), log provider
\* (then its registration); a constructor that failed is the last of them, so
\* no later constructor and no later global registration follows it.
C8_FixedOrder ==
    LET s == SelectSeq(trace, IsSetupCall)
    IN  /\ Len(s) <= Len(SetupOrder)
        /\ \A i \in 1..Len(s) : s[i] = SetupOrder[i]
        /\ \A i \in 1..Len(s) : CtorFailed(s[i]) => i = Len(s)
        /\ "TracerProvider" \in globals <=> Called("SetTracerProvider")
        /\ "LoggerProvider" \in globals <=> Called("SetLoggerProvider")
        /\ (pc = "returned" /\ err = Nil) => s = SetupOrder

C8_Witness ==
    /\ pc = "returned" /\ err # Nil
    /\ Called("newTraceProvider") /\ tracerProvider = Nil
    /\ globals = {"TextMapPropagator"}

\* C9: after a successful setup the first call of shutdown invokes the
\* tracer provider's Shutdown and then the logger provider's, once each, the
\* second also when the first returned an error, and returns non-nil exactly
\* when one of the two returned an error.
C9_FirstShutdown ==
    (pc = "returned" /\ err = Nil /\ nCalls = 1) =>
      /\ lastCall.called = <<"tracerProvider", "loggerProvider">>
      /\ SubSeq(trace, Len(trace) - 1, Len(trace))
            = <<"tracerProvider.Shutdown", "loggerProvider.Shutdown">>
      /\ \A p \in Providers : invoked[p] = 1
      /\ lastCall.err # Nil <=> \E p \in Providers : providerRet[p] # Nil

C9_Witness ==
    /\ pc = "returned" /\ err = Nil /\ nCalls = 1
    /\ providerRet["tracerProvider"] # Nil /\ providerRet["loggerProvider"] = Nil
    /\ invoked["loggerProvider"] = 1
    /\ lastCall.err = <<"tracerProvider.Shutdown failed">>

\* C10: if each of APIKey and PublicAPIKey is absent or the empty string,
\* newHeaders returns an error and no header map, and setup fails with it.
C10_EmptyKeyRejected ==
    (/\ Called("newHeaders")
     /\ config.APIKey \in {Nil, Ptr("")}
     /\ config.PublicAPIKey \in {Nil, Ptr("")}) =>
        /\ headers = Nil
        /\ err # Nil

ProviderGlobals == globals \cap {"TracerProvider", "LoggerProvider"}

\* C12 as stated: when setup returns a non-nil error neither the global
\* tracer provider nor the global logger provider has been replaced by a
\* provider of that call, so no global refers to a provider setup has shut
\* down; both are registered exactly when setup returns nil.
C12_GlobalsMatchOutcome ==
    pc = "returned" =>
      /\ err # Nil => ProviderGlobals = {}
      /\ (err # Nil /\ "TracerProvider" \in globals) => invoked["tracerProvider"] = 0
      /\ (err # Nil /\ "LoggerProvider" \in globals) => invoked["loggerProvider"] = 0
      /\ err = Nil <=> ProviderGlobals = {"TracerProvider", "LoggerProvider"}

\* C12 amended: both global providers are registered exactly when setup
\* returns nil, and a failed setup never replaces the global logger provider;
\* but a failed setup has replaced the global tracer provider exactly when
\* the tracer provider was built (the logger provider's constructor failed),
\* and that global then refers to a provider setup has shut down.
C12_GlobalsAfterSetup ==
    pc = "returned" =>
      /\ err = Nil <=> ProviderGlobals = {"TracerProvider", "LoggerProvider"}
      /\ err # Nil =>
            /\ "LoggerProvider" \notin globals
            /\ "TracerProvider" \in globals <=> tracerProvider # Nil
            /\ "TracerProvider" \in globals =>
                  /\ CtorFailed("newLoggerProvider")
                  /\ invoked["tracerProvider"] = 1

C12_Witness ==
    /\ pc = "returned" /\ err # Nil /\ nCalls = 1
    /\ ProviderGlobals = {"TracerProvider"}
    /\ loggerProvider = Nil /\ Called("newLoggerProvider")
    /\ invoked["tracerProvider"] = 1

\* C11: when two goroutines call the returned shutdown function and their
\* executions interleave, neither the tracer provider's nor the logger
\* provider's Shutdown is invoked more than once.
C11_OnceConcurrent ==
    (\E g \in Goroutines : gor[g].pc # "idle") =>
        \A p \in Providers : invoked[p] <= 1

====
